---- MODULE Spec2Model ----
(***************************************************************************)
(* A model of prebloom_scout.py: the symbol registry (load_symbol_metadata),*)
(* the category filter, the token extractor, the age bucketer, the mention *)
(* aggregation loop of main() and the pre-bloom ranking.                   *)
(*                                                                         *)
(* Python strings are modelled as sequences of one-character strings, so   *)
(* that upper(), strip(), lstrip("$"), substring tests and the regular     *)
(* expression are computed character by character.  The character set is   *)
(* ASCII: letters, digits, "_", "$", blanks and punctuation.               *)
(***************************************************************************)
EXTENDS Integers, Sequences, FiniteSets, TLC

VARIABLES
    pc,              \* position of the modelled run
    EXCLUDE_ETFS,    \* the three category switches (module globals)
    EXCLUDE_BIOTECH,
    EXCLUDE_ADRS,
    verified,        \* set of symbols
    meta,            \* symbol -> [name, is_etf]
    rows1,           \* parsed rows of nasdaqlisted.txt
    rows2,           \* parsed rows of otherlisted.txt
    row_i,           \* index of the next row of the current listing
    text,            \* argument of extract_tickers
    out,             \* result of extract_tickers
    age_days,        \* argument of bucket_for_age_days
    bucket,          \* result of bucket_for_age_days
    sub_i,           \* index into SUBREDDITS of the subreddit being scanned
    scanned_posts,   \* posts taken from the current listing
    post,            \* the post taken from the listing last
    n_comments,      \* length of post.comments after replace_more
    scanned,         \* comments taken from post.comments
    counts,          \* bucket -> Counter(ticker)
    per_sub,         \* ticker -> Counter(subreddit)
    sample_titles,   \* ticker -> list of (sub, title)
    mentions,        \* history: ticker -> mentions recorded from posts, from comments
    pre_scan,        \* history: counts and per_sub when the try block was entered
    scan_failed,     \* history: the last comment scan ended in the except branch
    rows             \* ranked candidate rows

cfgVars  == <<EXCLUDE_ETFS, EXCLUDE_BIOTECH, EXCLUDE_ADRS>>
regVars  == <<verified, meta>>
loadVars == <<rows1, rows2, row_i>>
extVars  == <<text, out>>
bktVars  == <<age_days, bucket>>
aggVars  == <<counts, per_sub, sample_titles, mentions>>
scanVars == <<sub_i, scanned_posts, post, n_comments, scanned, pre_scan, scan_failed>>
vars == <<pc, cfgVars, regVars, loadVars, extVars, bktVars, aggVars, scanVars, rows>>

----------------------------------------------------------------------------
(* Characters and strings *)

UPPER == <<"A", "B", "C", "D", "E", "F", "G", "H", "I", "J", "K", "L", "M",
           "N", "O", "P", "Q", "R", "S", "T", "U", "V", "W", "X", "Y", "Z">>
LOWER == <<"a", "b", "c", "d", "e", "f", "g", "h", "i", "j", "k", "l", "m",
           "n", "o", "p", "q", "r", "s", "t", "u", "v", "w", "x", "y", "z">>
DIGITS == {"0", "1", "2", "3", "4", "5", "6", "7", "8", "9"}

Range(f) == {f[i] : i \in DOMAIN f}

UpperSet == Range(UPPER)
LowerSet == Range(LOWER)
\* lowercase letter -> uppercase letter
ToUpper  == [c \in LowerSet |-> UPPER[CHOOSE i \in DOMAIN LOWER : LOWER[i] = c]]
\* \w of the re module
WordSet  == UpperSet \cup LowerSet \cup DIGITS \cup {"_"}

IsUpperChar(c) == c \in UpperSet
IsLowerChar(c) == c \in LowerSet
IsAlphaChar(c) == c \in UpperSet \/ c \in LowerSet
IsWordChar(c)  == c \in WordSet
IsSpaceChar(c) == c \in {" ", "\t"}

UpperChar(c) == IF c \in LowerSet THEN ToUpper[c] ELSE c

\* str.upper()
Upper(s) == [i \in 1..Len(s) |-> UpperChar(s[i])]

\* str.isalpha(): non-empty and every character alphabetic
IsAlpha(s) == Len(s) > 0 /\ \A i \in 1..Len(s) : IsAlphaChar(s[i])

RECURSIVE LStripSpace(_)
LStripSpace(s) ==
    IF s # <<>> /\ IsSpaceChar(Head(s)) THEN LStripSpace(Tail(s)) ELSE s

RECURSIVE RStripSpace(_)
RStripSpace(s) ==
    IF s # <<>> /\ IsSpaceChar(s[Len(s)])
    THEN RStripSpace(SubSeq(s, 1, Len(s) - 1))
    ELSE s

\* str.strip()
Strip(s) == RStripSpace(LStripSpace(s))

\* str.lstrip("$")
RECURSIVE LStripDollar(_)
LStripDollar(s) ==
    IF s # <<>> /\ Head(s) = "$" THEN LStripDollar(Tail(s)) ELSE s

\* k in up
Contains(k, up) ==
    \E i \in 0..(Len(up) - Len(k)) : SubSeq(up, i + 1, i + Len(k)) = k

\* s[:n]
Take(s, n) == SubSeq(s, 1, IF Len(s) < n THEN Len(s) ELSE n)

----------------------------------------------------------------------------
(* Configuration *)

EXCLUDE_TICKERS ==
  {
    <<"A", "A", "P", "L">>, <<"M", "S", "F", "T">>, <<"A", "M", "Z", "N">>,
    <<"G", "O", "O", "G">>, <<"G", "O", "O", "G", "L">>, <<"M", "E", "T", "A">>,
    <<"N", "V", "D", "A">>, <<"A", "M", "D">>, <<"T", "S", "L", "A">>, <<"N", "F", "L", "X">>,
    <<"O", "R", "C", "L">>, <<"I", "N", "T", "C">>, <<"C", "S", "C", "O">>, <<"I", "B", "M">>,
    <<"A", "D", "B", "E">>, <<"C", "R", "M">>, <<"Q", "C", "O", "M">>, <<"A", "V", "G", "O">>,
    <<"T", "X", "N">>, <<"S", "P", "Y">>, <<"Q", "Q", "Q">>, <<"D", "I", "A">>,
    <<"I", "W", "M">>, <<"V", "T", "I">>, <<"G", "M", "E">>, <<"A", "M", "C">>, <<"B", "B">>,
    <<"N", "O", "K">>, <<"P", "L", "T", "R">>, <<"C", "O", "I", "N">>, <<"M", "A", "R", "A">>,
    <<"R", "I", "O", "T">> }
STOPWORDS ==
  {
    <<"A">>, <<"I">>, <<"D", "D">>, <<"C", "E", "O">>, <<"C", "F", "O">>, <<"U", "S", "A">>,
    <<"U", "S">>, <<"G", "D", "P">>, <<"I", "P", "O">>, <<"A", "I">>, <<"E", "V">>,
    <<"F", "O", "M", "O">>, <<"Y", "O", "L", "O">>, <<"S", "E", "C">>, <<"F", "E", "D">>,
    <<"I", "M", "O">>, <<"T", "L", "D", "R">>, <<"E", "D", "I", "T">>, <<"W", "S", "B">>,
    <<"N", "Y", "S", "E">>, <<"N", "A", "S", "D", "A", "Q">>, <<"T", "H", "E">>,
    <<"A", "N", "D">>, <<"O", "R">>, <<"F", "O", "R">>, <<"W", "I", "T", "H">>,
    <<"T", "H", "I", "S">>, <<"T", "H", "A", "T">> }
BIOTECH_KEYWORDS ==
  <<
    <<"B", "I", "O", "T", "E", "C", "H">>, <<"B", "I", "O", " ", "T", "E", "C", "H">>,
    <<"B", "I", "O", "S", "C", "I", "E", "N", "C", "E">>,
    <<"B", "I", "O", "S", "C", "I", "E", "N", "C", "E", "S">>,
    <<"B", "I", "O", "S", "C", "I">>, <<"B", "I", "O", "P", "H", "A", "R", "M", "A">>,
    <<"B", "I", "O", "-", "P", "H", "A", "R", "M", "A">>, <<"P", "H", "A", "R", "M", "A">>,
    <<"P", "H", "A", "R", "M", "A", "C", "E", "U", "T">>,
    <<"T", "H", "E", "R", "A", "P", "E", "U", "T">>,
    <<"T", "H", "E", "R", "A", "P", "E", "U", "T", "I", "C", "S">>, <<"O", "N", "C", "O">>,
    <<"O", "N", "C", "O", "L", "O", "G", "Y">>, <<"G", "E", "N", "O", "M">>,
    <<"G", "E", "N", "E">>, <<"I", "M", "M", "U", "N", "O">>,
    <<"V", "A", "C", "C", "I", "N", "E">>, <<"C", "L", "I", "N", "I", "C", "A", "L">>,
    <<"D", "R", "U", "G">>, <<"M", "E", "D", "I", "C", "I", "N", "E", "S">> >>
ADR_KEYWORDS ==
  <<
    <<"A", "M", "E", "R", "I", "C", "A", "N", " ", "D", "E", "P", "O", "S", "I", "T", "A", "R", "Y">>,
    <<"D", "E", "P", "O", "S", "I", "T", "A", "R", "Y", " ", "S", "H", "A", "R", "E", "S">>,
    <<"D", "E", "P", "O", "S", "I", "T", "A", "R", "Y", " ", "R", "E", "C", "E", "I", "P", "T">>,
    <<"A", "D", "R">>, <<"A", "D", "S">> >>

----------------------------------------------------------------------------
(* Category filter *)

\* mutant: the keyword test without upper-casing the name
security_name_has_any_cased(name, keywords) ==
    IF name = <<>>
    THEN FALSE
    ELSE \E j \in 1..Len(keywords) : Contains(keywords[j], name)

security_name_has_any(name, keywords) ==
    IF name = <<>>
    THEN FALSE
    ELSE LET up == Upper(name)
         IN  \E j \in 1..Len(keywords) : Contains(keywords[j], up)

passes_category_filters(ticker, mt) ==
    IF ticker \notin DOMAIN mt
    THEN TRUE
    ELSE LET info   == mt[ticker]
             name   == info.name
             is_etf == info.is_etf
         IN  IF EXCLUDE_ETFS /\ is_etf THEN FALSE
             ELSE IF EXCLUDE_ADRS /\ security_name_has_any(name, ADR_KEYWORDS) THEN FALSE
             ELSE IF EXCLUDE_BIOTECH /\ security_name_has_any(name, BIOTECH_KEYWORDS) THEN FALSE
             ELSE TRUE

----------------------------------------------------------------------------
(* Token extractor *)

\* the {1,6} of TICKER_RE
TICKER_RE_MAX == 6

\* [A-Z]{1,6}, greedy: the uppercase letters from position q on, at most six
RECURSIVE RunLen(_, _, _)
RunLen(s, q, n) ==
    IF n < TICKER_RE_MAX /\ q + n <= Len(s) /\ IsUpperChar(s[q + n])
    THEN RunLen(s, q, n + 1)
    ELSE n

\* \b between s[q-1] and s[q]; outside the string counts as a non-word character
AtBoundary(s, q) ==
    (q - 1 >= 1 /\ IsWordChar(s[q - 1])) # (q <= Len(s) /\ IsWordChar(s[q]))

\* [A-Z]{1,6}\b at position q: the longest repetition count the boundary accepts
\* (the matcher backtracks from the greedy count down to one); 0 when none
LettersMatch(s, q) ==
    LET ok == {n \in 1..RunLen(s, q, 0) : AtBoundary(s, q + n)}
    IN  IF ok = {} THEN 0 ELSE CHOOSE n \in ok : \A m \in ok : m <= n

\* \$?[A-Z]{1,6}\b at position p: the length of the match, 0 when none
MatchLen(s, p) ==
    IF s[p] = "$"
    THEN LET n == LettersMatch(s, p + 1)
         IN  IF n > 0 THEN n + 1 ELSE LettersMatch(s, p)
    ELSE LettersMatch(s, p)

\* TICKER_RE.findall(s): leftmost non-overlapping matches from position p on
RECURSIVE FindAll(_, _)
FindAll(s, p) ==
    IF p > Len(s) THEN <<>>
    ELSE LET n == MatchLen(s, p)
         IN  IF n > 0
             THEN <<SubSeq(s, p, p + n - 1)>> \o FindAll(s, p + n)
             ELSE FindAll(s, p + 1)

\* mutant: the manual exclude list is not consulted
extract_keeps_no_exclude(t, ver, mt) ==
    IF t \in STOPWORDS THEN FALSE
    ELSE IF ~(1 <= Len(t) /\ Len(t) <= 5 /\ IsAlpha(t) /\ t \in ver) THEN FALSE
    ELSE IF ~passes_category_filters(t, mt) THEN FALSE
    ELSE TRUE

\* mutant: membership in the verified universe is not required
extract_keeps_unverified(t, ver, mt) ==
    IF t \in STOPWORDS THEN FALSE
    ELSE IF t \in EXCLUDE_TICKERS THEN FALSE
    ELSE IF ~(1 <= Len(t) /\ Len(t) <= 5 /\ IsAlpha(t)) THEN FALSE
    ELSE IF ~passes_category_filters(t, mt) THEN FALSE
    ELSE TRUE

\* the body of the loop over hits: TRUE when t reaches out.append(t)
extract_keeps(t, ver, mt) ==
    IF t \in STOPWORDS THEN FALSE
    ELSE IF t \in EXCLUDE_TICKERS THEN FALSE
    ELSE IF ~(1 <= Len(t) /\ Len(t) <= 5 /\ IsAlpha(t) /\ t \in ver) THEN FALSE
    ELSE IF ~passes_category_filters(t, mt) THEN FALSE
    ELSE TRUE

RECURSIVE extract_loop(_, _, _)
extract_loop(hits, ver, mt) ==
    IF hits = <<>> THEN <<>>
    ELSE LET t == LStripDollar(Head(hits))
         IN  (IF extract_keeps(t, ver, mt) THEN <<t>> ELSE <<>>)
                 \o extract_loop(Tail(hits), ver, mt)

extract_tickers(txt, ver, mt) ==
    IF txt = <<>> THEN <<>>
    ELSE extract_loop(FindAll(Upper(txt), 1), ver, mt)

----------------------------------------------------------------------------
(* Symbols, names and texts the specifications draw from *)

SOFI   == <<"S", "O", "F", "I">>
HIMS   == <<"H", "I", "M", "S">>
AMD    == <<"A", "M", "D">>
AI     == <<"A", "I">>
SOFIAI == <<"S", "O", "F", "I", "A", "I">>

PlainName == <<"S", "o", "F", "i", " ", "T", "e", "c", "h", " ", "I", "n", "c">>
EtfName == <<"S", "o", "f", "i", " ", "5", "0", "0", " ", "E", "T", "F">>
AdrName == <<"S", "o", "f", "i", " ", "D", "e", "p", "o", "s", "i", "t", "a", "r", "y", " ", "S", "h", "a", "r", "e", "s">>
BioName == <<"S", "o", "f", "i", " ", "T", "h", "e", "r", "a", "p", "e", "u", "t", "i", "c", "s">>
\* "QUADRANT" holds "ADR"
QuadName == <<"Q", "u", "a", "d", "r", "a", "n", "t", " ", "C", "o">>

Info(name, is_etf) == [name |-> name, is_etf |-> is_etf]

InfoPool ==
    { Info(PlainName, FALSE), Info(EtfName, TRUE), Info(AdrName, FALSE),
      Info(BioName, FALSE), Info(QuadName, FALSE), Info(<<>>, FALSE) }

\* the words a text is made of
WordPool ==
    << <<"7", "s", "o", "f", "i">>,
       <<"$", "S", "O", "F", "I">>,
       <<"A", "M", "D">>,
       <<"a", "i">>,
       <<"S", "O", "F", "I", "1">>,
       <<"S", "O", "F", "I", "A", "I">> >>

MaxWords == 2

RECURSIVE JoinWords(_)
JoinWords(ws) ==
    IF ws = <<>> THEN <<>>
    ELSE IF Len(ws) = 1 THEN Head(ws)
    ELSE Head(ws) \o <<" ">> \o JoinWords(Tail(ws))

Texts ==
    {JoinWords(ws) : ws \in UNION {[1..n -> Range(WordPool)] : n \in 0..MaxWords}}

Universes ==
    { {}, {AMD, AI}, {SOFI, AMD, AI}, {SOFI, AMD, AI, SOFIAI} }

BaseMeta == AMD :> Info(<<"A", "M", "D", " ", "I", "n", "c">>, FALSE)

MetaChoices ==
    {BaseMeta} \cup {(SOFI :> i) @@ BaseMeta : i \in InfoPool}

----------------------------------------------------------------------------
(* Values of the variables a specification does not use *)

CfgAsWritten == EXCLUDE_ETFS = TRUE /\ EXCLUDE_BIOTECH = TRUE /\ EXCLUDE_ADRS = TRUE
RegIdle  == verified = {} /\ meta = <<>>
LoadIdle == rows1 = <<>> /\ rows2 = <<>> /\ row_i = 1
ExtIdle  == text = <<>> /\ out = <<>>
BktIdle  == age_days = 0 /\ bucket = "none"
AggIdle  == counts = <<>> /\ per_sub = <<>> /\ sample_titles = <<>> /\ mentions = <<>>
ScanIdle == /\ sub_i = 1 /\ scanned_posts = 0 /\ post = <<>>
            /\ n_comments = 0 /\ scanned = 0
            /\ pre_scan = <<>> /\ scan_failed = FALSE
RankIdle == rows = <<>>

----------------------------------------------------------------------------
(* extract_tickers as a function of its arguments and the three switches *)

InitExtract ==
    /\ pc = "extract"
    /\ EXCLUDE_ETFS \in BOOLEAN /\ EXCLUDE_BIOTECH \in BOOLEAN /\ EXCLUDE_ADRS \in BOOLEAN
    /\ verified \in Universes
    /\ meta \in MetaChoices
    /\ text \in Texts
    /\ out = <<>>
    /\ LoadIdle /\ BktIdle /\ AggIdle /\ ScanIdle /\ RankIdle

CallExtract ==
    /\ pc = "extract"
    /\ out' = extract_tickers(text, verified, meta)
    /\ pc' = "extracted"
    /\ UNCHANGED <<cfgVars, regVars, loadVars, text, bktVars, aggVars, scanVars, rows>>

NextExtract == CallExtract

SpecExtract == InitExtract /\ [][NextExtract]_vars

\* the tokens of the text after lstrip("$")
TokensOf(txt) ==
    LET hits == FindAll(Upper(txt), 1)
    IN  {LStripDollar(hits[i]) : i \in 1..Len(hits)}

\* C1: extract_tickers never returns a token of STOPWORDS or of EXCLUDE_TICKERS,
\* whatever the text, the verified universe and the metadata map.
C1_NeverStopwordOrExcluded ==
    pc = "extracted" =>
        \A i \in 1..Len(out) : out[i] \notin STOPWORDS /\ out[i] \notin EXCLUDE_TICKERS

\* a run where the text holds an excluded token that is verified and passes the
\* category filters, next to a token that is returned
C1_Witness ==
    /\ pc = "extracted"
    /\ out # <<>>
    /\ \E t \in TokensOf(text) :
          /\ t \in STOPWORDS \cup EXCLUDE_TICKERS
          /\ t \in verified
          /\ passes_category_filters(t, meta)

\* C2: every ticker extract_tickers returns is in the verified universe, under
\* every setting of the three category switches.
C2_OnlyVerified ==
    pc = "extracted" => \A i \in 1..Len(out) : out[i] \in verified

\* a run with the ETF switch off where the text names SOFI, SOFI passes the
\* category filters and is not in the universe
C2_Witness ==
    /\ pc = "extracted"
    /\ ~EXCLUDE_ETFS
    /\ SOFI \in TokensOf(text)
    /\ SOFI \notin verified
    /\ passes_category_filters(SOFI, meta)
    /\ verified # {}

\* case-insensitive substring containment, as the claim words it: some slice of
\* the name, upper-cased, is a keyword
NameHoldsKeyword(name, keywords) ==
    \E k \in Range(keywords) :
        \E i \in 1..Len(name) :
            /\ i + Len(k) - 1 <= Len(name)
            /\ \A x \in 1..Len(k) : UpperChar(name[i + x - 1]) = k[x]

ExcludedByCategory(info) ==
    \/ info.is_etf /\ EXCLUDE_ETFS
    \/ NameHoldsKeyword(info.name, ADR_KEYWORDS) /\ EXCLUDE_ADRS
    \/ NameHoldsKeyword(info.name, BIOTECH_KEYWORDS) /\ EXCLUDE_BIOTECH

\* C5: passes_category_filters is TRUE for a symbol without metadata, and for a
\* symbol with metadata it is FALSE exactly when the ETF flag is set and
\* EXCLUDE_ETFS is on, or the upper-cased name holds an ADR keyword and
\* EXCLUDE_ADRS is on, or it holds a biotech keyword and EXCLUDE_BIOTECH is on;
\* so extract_tickers never returns an ETF-flagged symbol while EXCLUDE_ETFS is on.
C5_CategoryFilter ==
    /\ \A t \in DOMAIN meta \cup {HIMS} :
          passes_category_filters(t, meta)
              = (t \notin DOMAIN meta \/ ~ExcludedByCategory(meta[t]))
    /\ (pc = "extracted" /\ EXCLUDE_ETFS) =>
          \A i \in 1..Len(out) : out[i] \in DOMAIN meta => ~meta[out[i]].is_etf

\* a run where only the ETF switch is on and the text names a verified symbol
\* whose metadata has the ETF flag set
C5_Witness ==
    /\ pc = "extracted"
    /\ EXCLUDE_ETFS /\ ~EXCLUDE_ADRS /\ ~EXCLUDE_BIOTECH
    /\ SOFI \in TokensOf(text) /\ SOFI \in verified
    /\ SOFI \in DOMAIN meta /\ meta[SOFI].is_etf
    /\ \A i \in 1..Len(out) : out[i] # SOFI

----------------------------------------------------------------------------
(* Age bucketer *)

\* mutant: strict comparisons at the bucket borders
bucket_for_age_days_strict(a) ==
    IF a < 7 THEN "0_7"
    ELSE IF a < 30 THEN "8_30"
    ELSE "31_90"

bucket_for_age_days(a) ==
    IF a <= 7 THEN "0_7"
    ELSE IF a <= 30 THEN "8_30"
    ELSE "31_90"

Buckets == {"0_7", "8_30", "31_90"}

MaxAge == 95

InitBucket ==
    /\ pc = "bucket"
    /\ age_days \in (-1)..MaxAge
    /\ bucket = "none"
    /\ CfgAsWritten /\ RegIdle /\ LoadIdle /\ ExtIdle /\ AggIdle /\ ScanIdle /\ RankIdle

CallBucket ==
    /\ pc = "bucket"
    /\ bucket' = bucket_for_age_days(age_days)
    /\ pc' = "bucketed"
    /\ UNCHANGED <<cfgVars, regVars, loadVars, extVars, age_days, aggVars, scanVars, rows>>

NextBucket == CallBucket

SpecBucket == InitBucket /\ [][NextBucket]_vars

\* C4: for every age >= 0 bucket_for_age_days returns exactly one of the three
\* buckets: "0_7" iff age <= 7, "8_30" iff 8 <= age <= 30, "31_90" iff age >= 31;
\* 7 is recent, 8 and 30 are mid, 31 is old.
C4_BucketPartition ==
    (pc = "bucketed" /\ age_days >= 0) =>
        /\ bucket \in Buckets
        /\ (bucket = "0_7") = (age_days <= 7)
        /\ (bucket = "8_30") = (8 <= age_days /\ age_days <= 30)
        /\ (bucket = "31_90") = (age_days >= 31)
        /\ (age_days = 7 => bucket = "0_7")
        /\ (age_days \in {8, 30} => bucket = "8_30")
        /\ (age_days = 31 => bucket = "31_90")

\* the call on the upper border of the mid bucket
C4_Witness == pc = "bucketed" /\ age_days = 30 /\ bucket = "8_30"

----------------------------------------------------------------------------
(* Scorer / ranker: main(), from all_tickers to rows.sort *)

MIN_RECENT_MENTIONS == 3
MAX_OLD_MENTIONS_31_90 == 25
MAX_TOTAL_MENTIONS == 120
\* MIN_MOMENTUM_RATIO = 1.8, as the fraction 18/10.  The float quotient
\* (a + 1) / (c + 1) compares with the float 1.8 as the fractions do: a quotient
\* of two small integers is either 9/5, which rounds to the float 1.8 itself, or
\* further from it than any rounding error.
MIN_MOMENTUM_RATIO_NUM == 18
MIN_MOMENTUM_RATIO_DEN == 10

\* the tickers a Counter may hold; a key is present iff its count is positive
\* (counts are only ever incremented, and reading a Counter adds no key)
TickerPool == {SOFI, HIMS}

\* set(counts["0_7"]) | set(counts["8_30"]) | set(counts["31_90"])
all_tickers ==
    {t \in TickerPool : \E b \in Buckets : counts[b][t] > 0}

\* mutant: the momentum test uses mom_short, (a + 1) / (b + 1)
passes_prebloom_short(a, b, c) ==
    IF a < MIN_RECENT_MENTIONS THEN FALSE
    ELSE IF c > MAX_OLD_MENTIONS_31_90 THEN FALSE
    ELSE IF a + b + c > MAX_TOTAL_MENTIONS THEN FALSE
    ELSE IF (a + 1) * MIN_MOMENTUM_RATIO_DEN < MIN_MOMENTUM_RATIO_NUM * (b + 1) THEN FALSE
    ELSE TRUE

\* the four "continue" tests: TRUE when the row is appended
passes_prebloom(a, b, c) ==
    IF a < MIN_RECENT_MENTIONS THEN FALSE
    ELSE IF c > MAX_OLD_MENTIONS_31_90 THEN FALSE
    ELSE IF a + b + c > MAX_TOTAL_MENTIONS THEN FALSE
    ELSE IF (a + 1) * MIN_MOMENTUM_RATIO_DEN < MIN_MOMENTUM_RATIO_NUM * (c + 1) THEN FALSE
    ELSE TRUE

\* the tuple appended to rows; the three floats are kept as fractions <<n, d>>:
\* score = a*2.0 + mom_long*3.0 - c*0.25
\*       = (8a(c+1) + 12(a+1) - c(c+1)) / (4(c+1))
RowOf(t) ==
    LET a == counts["0_7"][t]
        b == counts["8_30"][t]
        c == counts["31_90"][t]
    IN  [ ticker    |-> t,
          name      |-> IF t \in DOMAIN meta THEN meta[t].name ELSE <<>>,
          a         |-> a,
          b         |-> b,
          c         |-> c,
          total     |-> a + b + c,
          mom_short |-> <<a + 1, b + 1>>,
          mom_long  |-> <<a + 1, c + 1>>,
          score     |-> <<8 * a * (c + 1) + 12 * (a + 1) - c * (c + 1), 4 * (c + 1)>> ]

\* r1's score >= r2's score (both denominators are positive)
ScoreGE(r1, r2) == r1.score[1] * r2.score[2] >= r2.score[1] * r1.score[2]

\* rows after the loop over all_tickers and rows.sort(key=score, reverse=True):
\* the set is iterated in an unspecified order and the sort is stable, so rows of
\* equal score may come in either order
RankedRows ==
    LET kept == {RowOf(t) : t \in {u \in all_tickers :
                     passes_prebloom(counts["0_7"][u], counts["8_30"][u], counts["31_90"][u])}}
        n    == Cardinality(kept)
    IN  { r \in [1..n -> kept] :
            /\ \A i, j \in 1..n : i # j => r[i] # r[j]
            /\ \A i \in 1..(n - 1) : ScoreGE(r[i], r[i + 1]) }

MaxRecent == 50
MaxMid == 75
MaxOld == 27

CountsOf(a, b, c) ==
    [bk \in Buckets |->
        [t \in TickerPool |->
            IF t = SOFI
            THEN (IF bk = "0_7" THEN a ELSE IF bk = "8_30" THEN b ELSE c)
            ELSE (IF bk = "0_7" THEN 5 ELSE 0)]]

PlainMeta == (SOFI :> Info(PlainName, FALSE)) @@ (HIMS :> Info(<<"H", "i", "m", "s">>, FALSE))

InitRank ==
    /\ pc = "rank"
    /\ verified = TickerPool
    /\ meta = PlainMeta
    /\ counts \in {CountsOf(a, b, c) : a \in 0..MaxRecent, b \in 0..MaxMid, c \in 0..MaxOld}
    /\ per_sub = <<>> /\ sample_titles = <<>> /\ mentions = <<>>
    /\ rows = <<>>
    /\ CfgAsWritten /\ LoadIdle /\ ExtIdle /\ BktIdle /\ ScanIdle

Rank ==
    /\ pc = "rank"
    /\ rows' \in RankedRows
    /\ pc' = "ranked"
    /\ UNCHANGED <<cfgVars, regVars, loadVars, extVars, bktVars, aggVars, scanVars>>

NextRank == Rank

SpecRank == InitRank /\ [][NextRank]_vars

RankedTickers == {rows[i].ticker : i \in 1..Len(rows)}

\* C3: a ticker with at least one mention is in the ranked output iff
\* recent >= MIN_RECENT_MENTIONS, old <= MAX_OLD_MENTIONS_31_90,
\* recent + mid + old <= MAX_TOTAL_MENTIONS and
\* (recent + 1) / (old + 1) >= MIN_MOMENTUM_RATIO; with thresholds 3 / 25 / 120 / 1.8,
\* (4, 0, 2) is left out and (5, 0, 0) is ranked.
C3_RankedIffThresholds ==
    pc = "ranked" =>
        /\ \A t \in TickerPool :
              LET recent == counts["0_7"][t]
                  mid    == counts["8_30"][t]
                  old    == counts["31_90"][t]
              IN  recent + mid + old >= 1 =>
                    ( t \in RankedTickers
                        <=> /\ recent >= MIN_RECENT_MENTIONS
                            /\ old <= MAX_OLD_MENTIONS_31_90
                            /\ recent + mid + old <= MAX_TOTAL_MENTIONS
                            /\ MIN_MOMENTUM_RATIO_DEN * (recent + 1)
                                  >= MIN_MOMENTUM_RATIO_NUM * (old + 1) )
        /\ counts = CountsOf(4, 0, 2) => SOFI \notin RankedTickers
        /\ counts = CountsOf(5, 0, 0) => SOFI \in RankedTickers

\* the ranking of recent = 4, mid = 0, old = 2: only the momentum test fails
C3_Witness ==
    /\ pc = "ranked"
    /\ counts = CountsOf(4, 0, 2)
    /\ RankedTickers = {HIMS}

----------------------------------------------------------------------------
(* Symbol registry: load_symbol_metadata *)

\* the header lines of the two listings, split at "|"
NASDAQ_HEADER == <<"Symbol", "Security Name", "ETF">>
OTHER_HEADER  == <<"ACT Symbol", "Security Name", "ETF">>

\* list.index, counting from 0
IndexOf(h, col) == (CHOOSE i \in DOMAIN h : h[i] = col) - 1

Max3(a, b, c) ==
    IF a >= b /\ a >= c THEN a ELSE IF b >= c THEN b ELSE c

Registry(ver, mt) == [verified |-> ver, meta |-> mt]

\* mutant: the symbol is stored as stripped, without upper()
load_row_nasdaq_no_upper(parts, reg) ==
    LET sym_i  == IndexOf(NASDAQ_HEADER, "Symbol")
        name_i == IndexOf(NASDAQ_HEADER, "Security Name")
        etf_i  == IndexOf(NASDAQ_HEADER, "ETF")
    IN  IF Len(parts) <= Max3(sym_i, name_i, etf_i) THEN reg
        ELSE LET sym    == Strip(parts[sym_i + 1])
                 name   == Strip(parts[name_i + 1])
                 is_etf == Upper(Strip(parts[etf_i + 1])) = <<"Y">>
             IN  IF sym # <<>> /\ IsAlpha(sym)
                 THEN Registry(reg.verified \cup {sym},
                               (sym :> Info(name, is_etf)) @@ reg.meta)
                 ELSE reg

\* one iteration of "for parts in rows1"
load_row_nasdaq(parts, reg) ==
    LET sym_i  == IndexOf(NASDAQ_HEADER, "Symbol")
        name_i == IndexOf(NASDAQ_HEADER, "Security Name")
        etf_i  == IndexOf(NASDAQ_HEADER, "ETF")
    IN  IF Len(parts) <= Max3(sym_i, name_i, etf_i) THEN reg
        ELSE LET sym    == Upper(Strip(parts[sym_i + 1]))
                 name   == Strip(parts[name_i + 1])
                 is_etf == Upper(Strip(parts[etf_i + 1])) = <<"Y">>
             IN  IF sym # <<>> /\ IsAlpha(sym)
                 THEN \* meta[sym] = {...}
                      Registry(reg.verified \cup {sym},
                               (sym :> Info(name, is_etf)) @@ reg.meta)
                 ELSE reg

\* mutant: the second listing assigns meta[sym] as the first does
load_row_other_assign(parts, reg) ==
    LET sym2_i  == IndexOf(OTHER_HEADER, "ACT Symbol")
        name2_i == IndexOf(OTHER_HEADER, "Security Name")
        etf2_i  == IndexOf(OTHER_HEADER, "ETF")
    IN  IF Len(parts) <= Max3(sym2_i, name2_i, etf2_i) THEN reg
        ELSE LET sym    == Upper(Strip(parts[sym2_i + 1]))
                 name   == Strip(parts[name2_i + 1])
                 is_etf == Upper(Strip(parts[etf2_i + 1])) = <<"Y">>
             IN  IF sym # <<>> /\ IsAlpha(sym)
                 THEN Registry(reg.verified \cup {sym},
                               (sym :> Info(name, is_etf)) @@ reg.meta)
                 ELSE reg

\* one iteration of "for parts in rows2"
load_row_other(parts, reg) ==
    LET sym2_i  == IndexOf(OTHER_HEADER, "ACT Symbol")
        name2_i == IndexOf(OTHER_HEADER, "Security Name")
        etf2_i  == IndexOf(OTHER_HEADER, "ETF")
    IN  IF Len(parts) <= Max3(sym2_i, name2_i, etf2_i) THEN reg
        ELSE LET sym    == Upper(Strip(parts[sym2_i + 1]))
                 name   == Strip(parts[name2_i + 1])
                 is_etf == Upper(Strip(parts[etf2_i + 1])) = <<"Y">>
             IN  IF sym # <<>> /\ IsAlpha(sym)
                 THEN \* meta.setdefault(sym, {...})
                      Registry(reg.verified \cup {sym},
                               reg.meta @@ (sym :> Info(name, is_etf)))
                 ELSE reg

\* the rows a listing is made of
RowPool ==
    { << <<" ", " ", "s", "o", "f", "i", " ">>, PlainName, <<"N">> >>,
      << <<"S", "O", "F", "I">>, EtfName, <<" ", "y">> >>,
      << <<"S", "O", "F", "I", "A", "I">>, QuadName, <<"N">> >>,
      << <<"B", "R", "K", ".", "A">>, <<"B", "r", "k">>, <<"N">> >>,
      << <<"H", "I", "M", "S">> >>,
      << <<" ", " ">>, BioName, <<"N">> >> }

MaxRows == 2

Listings == UNION {[1..n -> RowPool] : n \in 0..MaxRows}

InitLoad ==
    /\ pc = "rows1"
    /\ verified = {}
    /\ meta = <<>>
    /\ rows1 \in Listings
    /\ rows2 \in Listings
    /\ row_i = 1
    /\ CfgAsWritten /\ ExtIdle /\ BktIdle /\ AggIdle /\ ScanIdle /\ RankIdle

LoadRowNasdaq ==
    /\ pc = "rows1"
    /\ row_i <= Len(rows1)
    /\ LET reg == load_row_nasdaq(rows1[row_i], Registry(verified, meta))
       IN  verified' = reg.verified /\ meta' = reg.meta
    /\ row_i' = row_i + 1
    /\ UNCHANGED <<pc, cfgVars, rows1, rows2, extVars, bktVars, aggVars, scanVars, rows>>

\* the first loop ends; the second listing is fetched and parsed
EndNasdaq ==
    /\ pc = "rows1"
    /\ row_i > Len(rows1)
    /\ pc' = "rows2"
    /\ row_i' = 1
    /\ UNCHANGED <<cfgVars, regVars, rows1, rows2, extVars, bktVars, aggVars, scanVars, rows>>

LoadRowOther ==
    /\ pc = "rows2"
    /\ row_i <= Len(rows2)
    /\ LET reg == load_row_other(rows2[row_i], Registry(verified, meta))
       IN  verified' = reg.verified /\ meta' = reg.meta
    /\ row_i' = row_i + 1
    /\ UNCHANGED <<pc, cfgVars, rows1, rows2, extVars, bktVars, aggVars, scanVars, rows>>

\* return verified, meta
EndOther ==
    /\ pc = "rows2"
    /\ row_i > Len(rows2)
    /\ pc' = "loaded"
    /\ UNCHANGED <<cfgVars, regVars, loadVars, extVars, bktVars, aggVars, scanVars, rows>>

NextLoad == LoadRowNasdaq \/ EndNasdaq \/ LoadRowOther \/ EndOther

SpecLoad == InitLoad /\ [][NextLoad]_vars

\* C6, as claimed: every symbol of the verified universe is alphabetic, uppercase
\* and 1 to 5 characters long.
C6_AlphaUpperLen1to5 ==
    \A sym \in verified :
        /\ \A i \in 1..Len(sym) : sym[i] \in UpperSet
        /\ 1 <= Len(sym) /\ Len(sym) <= 5

\* C6, amended: every symbol of the verified universe is non-empty, alphabetic and
\* uppercase; the loader puts no upper limit on its length.
C6_AlphaUpperNonEmpty ==
    \A sym \in verified :
        /\ \A i \in 1..Len(sym) : sym[i] \in UpperSet
        /\ Len(sym) >= 1

\* both listings are loaded and the universe holds a symbol of six letters next to
\* one that a listing spelt in lowercase
C6_Witness ==
    /\ pc = "loaded"
    /\ SOFI \in verified
    /\ SOFIAI \in verified

\* the rows of a listing that the loader accepts for symbol sym
AcceptedFor(listing, sym) ==
    {i \in 1..Len(listing) :
        /\ Len(listing[i]) >= 3
        /\ Upper(Strip(listing[i][1])) = sym
        /\ sym # <<>> /\ IsAlpha(sym)}

InfoOfRow(parts) == Info(Strip(parts[2]), Upper(Strip(parts[3])) = <<"Y">>)

\* C9: a symbol of both listings keeps the metadata of the first listing
\* (nasdaqlisted); a row of the second listing (otherlisted) sets metadata only
\* for a symbol that has none yet and never overwrites an entry.
C9_FirstSourceWins ==
    /\ pc \in {"rows2", "loaded"} =>
          \A sym \in verified :
              LET acc1 == AcceptedFor(rows1, sym)
              IN  acc1 # {} =>
                    /\ sym \in DOMAIN meta
                    /\ meta[sym] = InfoOfRow(rows1[CHOOSE i \in acc1 : \A j \in acc1 : j <= i])
    /\ pc = "loaded" =>
          \A sym \in verified :
              LET acc1 == AcceptedFor(rows1, sym)
                  acc2 == AcceptedFor(rows2, sym)
              IN  acc1 = {} =>
                    /\ acc2 # {}
                    /\ meta[sym] = InfoOfRow(rows2[CHOOSE i \in acc2 : \A j \in acc2 : i <= j])

\* SOFI is accepted from both listings with different metadata, and the loaded
\* metadata is that of the first
C9_Witness ==
    /\ pc = "loaded"
    /\ AcceptedFor(rows1, SOFI) # {}
    /\ \E i \in AcceptedFor(rows2, SOFI) : InfoOfRow(rows2[i]) # meta[SOFI]

----------------------------------------------------------------------------
(* Mention aggregation: the loop over subreddits, posts and comments of main() *)

\* the model scans the first two entries of the configured list
SUBREDDITS == <<"stocks", "stockmarket">>

DAYS_BACK == 90
TOP_LEVEL_COMMENT_LIMIT == 75

Aggregate(cnt, ps, st) == [counts |-> cnt, per_sub |-> ps, sample_titles |-> st]

\* mutant: the sample list is appended to without the length test
RECURSIVE record_post_uncapped(_, _, _, _, _)
record_post_uncapped(tks, b, sub, title, agg) ==
    IF tks = <<>> THEN agg
    ELSE LET t == Head(tks)
         IN  record_post_uncapped(Tail(tks), b, sub, title,
                Aggregate(
                    [agg.counts EXCEPT ![b][t] = @ + 1],
                    [agg.per_sub EXCEPT ![t][sub] = @ + 1],
                    [agg.sample_titles EXCEPT ![t] = Append(@, <<sub, Take(title, 140)>>)]))

\* "for t in tks" of the post branch
RECURSIVE record_post(_, _, _, _, _)
record_post(tks, b, sub, title, agg) ==
    IF tks = <<>> THEN agg
    ELSE LET t == Head(tks)
         IN  record_post(Tail(tks), b, sub, title,
                Aggregate(
                    [agg.counts EXCEPT ![b][t] = @ + 1],
                    [agg.per_sub EXCEPT ![t][sub] = @ + 1],
                    [agg.sample_titles EXCEPT ![t] =
                        IF Len(@) < 3 THEN Append(@, <<sub, Take(title, 140)>>) ELSE @]))

\* mutant: a comment mention is counted in its bucket only
RECURSIVE record_comment_no_sub(_, _, _, _)
record_comment_no_sub(c_tks, cb, sub, agg) ==
    IF c_tks = <<>> THEN agg
    ELSE LET t == Head(c_tks)
         IN  record_comment_no_sub(Tail(c_tks), cb, sub,
                Aggregate([agg.counts EXCEPT ![cb][t] = @ + 1], agg.per_sub, agg.sample_titles))

\* "for t in c_tks" of the comment branch
RECURSIVE record_comment(_, _, _, _)
record_comment(c_tks, cb, sub, agg) ==
    IF c_tks = <<>> THEN agg
    ELSE LET t == Head(c_tks)
         IN  record_comment(Tail(c_tks), cb, sub,
                Aggregate(
                    [agg.counts EXCEPT ![cb][t] = @ + 1],
                    [agg.per_sub EXCEPT ![t][sub] = @ + 1],
                    agg.sample_titles))

\* how often t occurs in the list tks
CountOf(t, tks) == Cardinality({i \in 1..Len(tks) : tks[i] = t})

\* the posts a listing yields: title, selftext, age in days
PostPool ==
    { [title |-> <<"$", "S", "O", "F", "I", " ", "s", "o", "f", "i">>, selftext |-> <<"s", "o", "f", "i">>, age |-> 40],
      [title |-> <<"H", "I", "M", "S", " ", "s", "o", "f", "i">>, selftext |-> <<>>, age |-> 10],
      [title |-> <<"A", "M", "D">>, selftext |-> <<"a", "i">>, age |-> 3] }

\* the top-level comments of a post; created_utc is "ok" (age gives its age in
\* days), "none" (the attribute is missing or zero) or "bad" (a value
\* datetime.fromtimestamp rejects)
CommentPool ==
    { [created_utc |-> "ok", age |-> 3, body |-> <<"s", "o", "f", "i">>],
      [created_utc |-> "none", age |-> 0, body |-> <<"s", "o", "f", "i">>],
      [created_utc |-> "bad", age |-> 0, body |-> <<"s", "o", "f", "i">>] }

MaxPosts == 1
MaxComments == 2

ScanUniverse == {SOFI, HIMS, AMD}

ScanMeta ==
    (SOFI :> Info(PlainName, FALSE)) @@ (HIMS :> Info(<<"H", "i", "m", "s">>, FALSE))
        @@ (AMD :> Info(<<"A", "M", "D", " ", "I", "n", "c">>, FALSE))

NoMentions == [post |-> 0, comment |-> 0]

Init ==
    /\ pc = "posts"
    /\ verified = ScanUniverse
    /\ meta = ScanMeta
    /\ counts = [b \in Buckets |-> [t \in TickerPool |-> 0]]
    /\ per_sub = [t \in TickerPool |-> [sub \in Range(SUBREDDITS) |-> 0]]
    /\ sample_titles = [t \in TickerPool |-> <<>>]
    /\ mentions = [t \in TickerPool |-> NoMentions]
    /\ sub_i = 1
    /\ scanned_posts = 0
    /\ post = <<>>
    /\ n_comments = 0
    /\ scanned = 0
    /\ pre_scan = <<>>
    /\ scan_failed = FALSE
    /\ rows = <<>>
    /\ CfgAsWritten /\ LoadIdle /\ ExtIdle /\ BktIdle

\* the next post of the listing is inside the window: its title and selftext are
\* extracted and recorded, and the try block of the comment scan is entered
ScanPost ==
    /\ pc = "posts"
    /\ scanned_posts < MaxPosts
    /\ \E p \in PostPool :
          /\ p.age <= DAYS_BACK
          /\ LET sub == SUBREDDITS[sub_i]
                 b   == bucket_for_age_days(p.age)
                 tks == extract_tickers(p.title, verified, meta)
                            \o extract_tickers(p.selftext, verified, meta)
                 agg == record_post(tks, b, sub, p.title,
                                    Aggregate(counts, per_sub, sample_titles))
             IN  /\ counts' = agg.counts
                 /\ per_sub' = agg.per_sub
                 /\ sample_titles' = agg.sample_titles
                 /\ mentions' = [t \in TickerPool |->
                                   [mentions[t] EXCEPT !.post = @ + CountOf(t, tks)]]
                 /\ pre_scan' = [counts |-> agg.counts, per_sub |-> agg.per_sub]
          /\ post' = p
    /\ scanned_posts' = scanned_posts + 1
    /\ scan_failed' = FALSE
    /\ pc' = "replace_more"
    /\ UNCHANGED <<cfgVars, regVars, loadVars, extVars, bktVars, sub_i, n_comments, scanned, rows>>

\* the for loop over the listing ends: the listing is exhausted, the limit is
\* reached, or the next post is older than the cutoff (break); the next
\* subreddit is started, or the ranking when there is none
EndListing ==
    /\ pc = "posts"
    /\ sub_i' = sub_i + 1
    /\ scanned_posts' = 0
    /\ pre_scan' = <<>>
    /\ scan_failed' = FALSE
    /\ pc' = IF sub_i = Len(SUBREDDITS) THEN "rank" ELSE "posts"
    /\ UNCHANGED <<cfgVars, regVars, loadVars, extVars, bktVars, aggVars, post, n_comments,
                   scanned, rows>>

\* post.comments.replace_more(limit=0) returns; post.comments holds n comments
ReplaceMore ==
    /\ pc = "replace_more"
    /\ n_comments' \in 0..MaxComments
    /\ scanned' = 0
    /\ pc' = "comments"
    /\ UNCHANGED <<cfgVars, regVars, loadVars, extVars, bktVars, aggVars, sub_i, scanned_posts,
                   post, pre_scan, scan_failed, rows>>

\* post.comments.replace_more(limit=0) raises: except Exception: pass
ReplaceMoreRaises ==
    /\ pc = "replace_more"
    /\ scan_failed' = TRUE
    /\ post' = <<>>
    /\ pc' = "posts"
    /\ UNCHANGED <<cfgVars, regVars, loadVars, extVars, bktVars, aggVars, sub_i, scanned_posts,
                   n_comments, scanned, pre_scan, rows>>

\* one iteration of "for c in post.comments"
ScanComment ==
    /\ pc = "comments"
    /\ scanned < TOP_LEVEL_COMMENT_LIMIT
    /\ scanned < n_comments
    /\ \E c \in CommentPool :
          /\ c.age <= post.age
          /\ IF c.created_utc = "none" \/ c.body = <<>>
             THEN \* continue
                  /\ scanned' = scanned + 1
                  /\ pc' = "comments"
                  /\ UNCHANGED <<aggVars, post, n_comments, scan_failed>>
             ELSE IF c.created_utc = "bad"
             THEN \* datetime.fromtimestamp raises: except Exception: pass
                  /\ pc' = "posts"
                  /\ scan_failed' = TRUE
                  /\ post' = <<>> /\ n_comments' = 0 /\ scanned' = 0
                  /\ UNCHANGED aggVars
             ELSE LET sub   == SUBREDDITS[sub_i]
                      cb    == bucket_for_age_days(c.age)
                      c_tks == extract_tickers(c.body, verified, meta)
                      agg   == record_comment(c_tks, cb, sub,
                                              Aggregate(counts, per_sub, sample_titles))
                  IN  /\ counts' = agg.counts
                      /\ per_sub' = agg.per_sub
                      /\ sample_titles' = agg.sample_titles
                      /\ mentions' = [t \in TickerPool |->
                                        [mentions[t] EXCEPT !.comment = @ + CountOf(t, c_tks)]]
                      /\ scanned' = scanned + 1
                      /\ pc' = "comments"
                      /\ UNCHANGED <<post, n_comments, scan_failed>>
    /\ UNCHANGED <<cfgVars, regVars, loadVars, extVars, bktVars, sub_i, scanned_posts,
                   pre_scan, rows>>

\* the comment loop ends (break at the limit, or no comment is left); the post,
\* its comment list and the loop counter are dead from here on
EndComments ==
    /\ pc = "comments"
    /\ scanned >= TOP_LEVEL_COMMENT_LIMIT \/ scanned >= n_comments
    /\ post' = <<>> /\ n_comments' = 0 /\ scanned' = 0
    /\ pre_scan' = <<>>
    /\ pc' = "posts"
    /\ UNCHANGED <<cfgVars, regVars, loadVars, extVars, bktVars, aggVars, sub_i, scanned_posts,
                   scan_failed, rows>>

Next ==
    \/ ScanPost
    \/ EndListing
    \/ ReplaceMore
    \/ ReplaceMoreRaises
    \/ ScanComment
    \/ EndComments
    \/ Rank

Spec == Init /\ [][Next]_vars

SumBuckets(cnt, t) == cnt["0_7"][t] + cnt["8_30"][t] + cnt["31_90"][t]

RECURSIVE SumSubsFrom(_, _, _)
SumSubsFrom(ps, t, i) ==
    IF i > Len(SUBREDDITS) THEN 0
    ELSE ps[t][SUBREDDITS[i]] + SumSubsFrom(ps, t, i + 1)

SumSubs(ps, t) == SumSubsFrom(ps, t, 1)

Recorded(mn, t) == mn[t].post + mn[t].comment

Min3(n) == IF n < 3 THEN n ELSE 3

\* n copies of x
RECURSIVE Copies(_, _)
Copies(x, n) == IF n <= 0 THEN <<>> ELSE <<x>> \o Copies(x, n - 1)

\* C7, as claimed: every recorded mention, from a post or from a comment, appends
\* to the ticker's samples exactly when they are fewer than 3.
C7_EveryMentionSampled ==
    [][\A t \in TickerPool :
          Len(sample_titles'[t])
              = Min3(Len(sample_titles[t]) + Recorded(mentions', t) - Recorded(mentions, t))]_vars

\* C7, amended: a ticker's samples are at most 3; a mention recorded from a post
\* appends (sub, title[:140]) exactly when they are fewer than 3; a mention
\* recorded from a comment appends nothing; no sample is replaced or removed.
C7_PostMentionsSampled ==
    /\ [](\A t \in TickerPool : Len(sample_titles[t]) <= 3)
    /\ [][\A t \in TickerPool :
             LET k == mentions'[t].post - mentions[t].post
                 n == Len(sample_titles[t])
             IN  IF k = 0
                 THEN sample_titles'[t] = sample_titles[t]
                 ELSE sample_titles'[t]
                        = sample_titles[t]
                            \o Copies(<<SUBREDDITS[sub_i], Take(post'.title, 140)>>,
                                      Min3(n + k) - n)]_vars

\* a ticker with more than 3 post mentions and a comment mention holds 3 samples
C7_Witness ==
    /\ mentions[SOFI].post > 3
    /\ mentions[SOFI].comment >= 1
    /\ Len(sample_titles[SOFI]) = 3
    /\ mentions[HIMS].comment = 0 /\ Len(sample_titles[HIMS]) = 1

\* C8, as claimed: after a comment scan that ended in the except branch, the bucket
\* counts and the per-subreddit counts are what they were when the scan began.
C8_FailedScanLeavesCounts ==
    scan_failed => counts = pre_scan.counts /\ per_sub = pre_scan.per_sub

\* C10: for every ticker the three bucket counts and the per-subreddit counts
\* both add up to the number of mentions recorded so far; a step that records k
\* mentions of a ticker adds k to one bucket counter and k to one subreddit
\* counter of it, and no counter ever decreases.
C10_Conservation ==
    /\ [](\A t \in TickerPool :
            /\ SumBuckets(counts, t) = Recorded(mentions, t)
            /\ SumSubs(per_sub, t) = Recorded(mentions, t))
    /\ [][\A t \in TickerPool :
             LET k == Recorded(mentions', t) - Recorded(mentions, t)
             IN  /\ k >= 0
                 /\ \E b \in Buckets :
                       /\ counts'[b][t] = counts[b][t] + k
                       /\ \A o \in Buckets \ {b} : counts'[o][t] = counts[o][t]
                 /\ \E sub \in Range(SUBREDDITS) :
                       /\ per_sub'[t][sub] = per_sub[t][sub] + k
                       /\ \A o \in Range(SUBREDDITS) \ {sub} :
                             per_sub'[t][o] = per_sub[t][o]]_vars

\* SOFI was mentioned in posts and in comments, in two buckets and both subreddits
C10_Witness ==
    /\ mentions[SOFI].post >= 1
    /\ mentions[SOFI].comment >= 1
    /\ counts["0_7"][SOFI] >= 1 /\ counts["31_90"][SOFI] >= 1
    /\ \A sub \in Range(SUBREDDITS) : per_sub[SOFI][sub] >= 1

----------------------------------------------------------------------------
====
